---- MODULE Spec2Model ----
(***************************************************************************)
(* Game-balancing backend (src/backend/server.py): a document store of     *)
(* projects, each embedding its stat definitions, characters and enemies,  *)
(* and the HTTP handlers that load a project, change it, recompute the     *)
(* derived stats and write the whole document back.                        *)
(*                                                                         *)
(* Numbers.  The program's floats are modelled as fixed-point integers in  *)
(* thousandths (Scale): 14.25 is 14250.  Every input drawn below is a      *)
(* multiple of 0.25 and every multiplier a multiple of 0.5, so a product   *)
(* of the character formula is an exact binary fraction and Python's       *)
(* round(x, 1) is round-half-to-even on the exact value (round(171.25, 1)  *)
(* is 171.2), which is what Round1 computes.  The enemy multiplier         *)
(* 1 + (level - 1) * 0.1 is not exact in binary; its product with an       *)
(* enemy base stat is a decimal tie only at level 1 (multiplier exactly    *)
(* 1.0) for the base stats and levels drawn here, so Round1 agrees with    *)
(* the float computation on every value the model reaches.                 *)
(***************************************************************************)
EXTENDS Integers, Sequences, FiniteSets, TLC

VARIABLES
    db_projects,   \* the db.projects collection: a sequence of project documents
    nextId,        \* the next identifier uuid4() hands out (fresh, never reused)
    response,      \* what the last request handled in one piece returned:
                   \* [status, kind, body]
    requests       \* the interleaved requests: what each has loaded and not yet
                   \* written, and what it returned

vars == <<db_projects, nextId, response, requests>>

----------------------------------------------------------------------------
\* Bound of the model.

\* Sub-documents a project document embeds beyond the four default stat
\* definitions: its characters, its enemies and the stat definitions added.
MaxEmbedded == 2

\* Requests the service is sent, after the project's creation, when it
\* interleaves them.
MaxRequests == 3

----------------------------------------------------------------------------
\* Fixed-point numbers.

Scale == 1000

Num(whole, thousandths) == whole * Scale + thousandths

\* float * float, exact on the values of the model
Mul(a, b) == (a * b) \div Scale

\* Python's round(x, 1) on an exactly represented x: nearest tenth, a tie
\* going to the even tenth.
Round1(x) ==
    LET q == x \div (Scale \div 10)
        r == x % (Scale \div 10)
    IN  (IF 2 * r > Scale \div 10 \/ (2 * r = Scale \div 10 /\ q % 2 = 1)
            THEN q + 1 ELSE q) * (Scale \div 10)

Max(a, b) == IF a >= b THEN a ELSE b

----------------------------------------------------------------------------
\* Python dicts: functions from keys to values.

EmptyDict == [k \in {} |-> 0]

DictSet(d, k, v) == [x \in (DOMAIN d) \cup {k} |-> IF x = k THEN v ELSE d[x]]

DictGet(d, k, default) == IF k \in DOMAIN d THEN d[k] ELSE default

----------------------------------------------------------------------------
\* The stat calculator (server.py:96-113).

\* The inner loop over stat_def.modifiers: a missing attribute counts as 0.
RECURSIVE modifiers_loop(_, _, _)
modifiers_loop(total, modifiers, base_attributes) ==
    IF modifiers = <<>> THEN total
    ELSE LET modifier == Head(modifiers)
             attribute_value == DictGet(base_attributes, modifier.attribute, 0)
         IN  modifiers_loop(
                 total + Mul(attribute_value, modifier.multiplier) + modifier.base_bonus,
                 Tail(modifiers), base_attributes)

\* One pass of the outer loop body: the rounded total of one definition.
stat_total(character, stat_def) ==
    Round1(modifiers_loop(stat_def.base_value, stat_def.modifiers,
                          character.base_attributes)
           + (character.level - 1) * stat_def.per_level_bonus)

\* The outer loop: calculated[stat_def.name] = ..., in list order, so a later
\* definition of a name overwrites the entry of an earlier one.
RECURSIVE stat_definitions_loop(_, _, _)
stat_definitions_loop(calculated, character, stat_definitions) ==
    IF stat_definitions = <<>> THEN calculated
    ELSE LET stat_def == Head(stat_definitions)
         IN  stat_definitions_loop(
                 DictSet(calculated, stat_def.name, stat_total(character, stat_def)),
                 character, Tail(stat_definitions))

\* calculate_character_stats updating the cached dict instead of a new one.
calculate_character_stats_carry(character, stat_definitions) ==
    stat_definitions_loop(character.calculated_stats, character, stat_definitions)

calculate_character_stats(character, stat_definitions) ==
    stat_definitions_loop(EmptyDict, character, stat_definitions)

\* Enemy scaling (server.py:249-253): 10% of the base stat per level above 1.
level_multiplier(level) == Scale + (level - 1) * (Scale \div 10)

enemy_calculated_stats(base_stats, level) ==
    [stat \in DOMAIN base_stats |->
        Round1(Mul(base_stats[stat], level_multiplier(level)))]

----------------------------------------------------------------------------
\* The models (server.py:30-93) and the values requests carry.

AttributeModifier(attribute, multiplier, base_bonus) ==
    [attribute |-> attribute, multiplier |-> multiplier, base_bonus |-> base_bonus]

StatDefinition(name, base_value, modifiers, per_level_bonus) ==
    [name |-> name, base_value |-> base_value, modifiers |-> modifiers,
     per_level_bonus |-> per_level_bonus]

\* default_stats with mana and power in each other's place.
default_stats_reordered ==
    << StatDefinition("health", Num(100, 0),
           <<AttributeModifier("constitution", Num(5, 0), 0)>>, Num(10, 0)),
       StatDefinition("power", Num(20, 0),
           <<AttributeModifier("strength", Num(2, 0), 0)>>, Num(2, 0)),
       StatDefinition("mana", Num(50, 0),
           <<AttributeModifier("intelligence", Num(3, 0), 0)>>, Num(5, 0)),
       StatDefinition("initiative", Num(10, 0),
           <<AttributeModifier("dexterity", Num(1, 500), 0)>>, Num(1, 0)) >>

\* create_project's hard-coded definitions (server.py:119-152).
default_stats ==
    << StatDefinition("health", Num(100, 0),
           <<AttributeModifier("constitution", Num(5, 0), 0)>>, Num(10, 0)),
       StatDefinition("mana", Num(50, 0),
           <<AttributeModifier("intelligence", Num(3, 0), 0)>>, Num(5, 0)),
       StatDefinition("power", Num(20, 0),
           <<AttributeModifier("strength", Num(2, 0), 0)>>, Num(2, 0)),
       StatDefinition("initiative", Num(10, 0),
           <<AttributeModifier("dexterity", Num(1, 500), 0)>>, Num(1, 0)) >>

\* Project's field defaults (server.py:61, 65-70).
default_attributes == <<"strength", "dexterity", "constitution", "intelligence">>

default_features_enabled ==
    [attributes |-> TRUE, stats |-> TRUE, perks |-> TRUE, classes |-> TRUE]

\* Levels a request carries (level: int, any integer is accepted): a
\* negative one, zero, the default 1 and the test suite's 3.
Levels == {-1, 0, 1, 3}

\* Levels of the create requests: zero, the default 1 and 3.
CreateLevels == {0, 1, 3}

ProjectCreateInputs == {[name |-> "demo", description |-> ""]}

\* base_attributes: fractional values, and no "intelligence" (nor "luck").
AttributeInputs ==
    { [a \in {"strength", "dexterity", "constitution"} |->
          CASE a = "strength" -> Num(15, 0)
            [] a = "dexterity" -> Num(12, 500)
            [] a = "constitution" -> Num(14, 250)] }

CharacterCreateInputs ==
    [name : {"hero"}, level : CreateLevels, base_attributes : AttributeInputs,
     character_class : {"warrior"}]

\* base_stats: the test suite's goblin with a health of two decimal places.
BaseStatsInputs ==
    { [s \in {"health", "power", "defense"} |->
          CASE s = "health" -> Num(80, 250)
            [] s = "power" -> Num(25, 0)
            [] s = "defense" -> Num(15, 0)] }

EnemyCreateInputs ==
    [name : {"goblin"}, enemy_type : {"orc"}, level : CreateLevels,
     base_stats : BaseStatsInputs]

\* Stat definitions sent to POST/PUT .../stats: two different definitions of
\* one new name, the first with a modifier on an attribute no character has.
StatDefinitionInputs ==
    { StatDefinition("speed", Num(0, 250),
          <<AttributeModifier("dexterity", Num(1, 500), 0),
            AttributeModifier("luck", Num(2, 0), Num(1, 0))>>, Num(0, 250)),
      StatDefinition("speed", Num(30, 0),
          <<AttributeModifier("strength", Num(0, 500), Num(0, 250))>>, Num(0, 500)) }

\* stat_name path values: a default name, the new name, a name never defined.
StatNameInputs == {"power", "speed", "ghost"}

----------------------------------------------------------------------------
\* The document store and the handlers' common steps.

\* IndexOfId falling back on the first element when none has the id.
IndexOfId_or_first(list, id) ==
    IF \E i \in DOMAIN list : list[i].id = id
        THEN CHOOSE i \in DOMAIN list :
                 /\ list[i].id = id
                 /\ \A j \in DOMAIN list : list[j].id = id => i <= j
        ELSE IF list = <<>> THEN 0 ELSE 1

\* Index of the first element of a list whose id is the given one, 0 if none
\* (find_one's None, a for loop that ends without a match).
IndexOfId(list, id) ==
    IF \E i \in DOMAIN list : list[i].id = id
        THEN CHOOSE i \in DOMAIN list :
                 /\ list[i].id = id
                 /\ \A j \in DOMAIN list : list[j].id = id => i <= j
        ELSE 0

\* Index of the first stat definition with the given name, 0 if none.
IndexOfName(stat_definitions, stat_name) ==
    IF \E i \in DOMAIN stat_definitions : stat_definitions[i].name = stat_name
        THEN CHOOSE i \in DOMAIN stat_definitions :
                 /\ stat_definitions[i].name = stat_name
                 /\ \A j \in DOMAIN stat_definitions :
                        stat_definitions[j].name = stat_name => i <= j
        ELSE 0

\* db.projects.replace_one({"id": project_id}, document)
replace_one(projects, project_id, document) ==
    [i \in DOMAIN projects |->
        IF i = IndexOfId(projects, project_id) THEN document ELSE projects[i]]

\* What a handler returns: the status, the kind of value returned (the
\* response model, or the handler's message) and the value.
Response(kind, body) == [status |-> 200, kind |-> kind, body |-> body]

HTTPException(status_code, detail) ==
    [status |-> status_code, kind |-> "HTTPException", body |-> detail]

\* Project(**project_data.dict(), stat_definitions=default_stats)
Project(id, project_data, stat_definitions) ==
    [id |-> id, name |-> project_data.name, description |-> project_data.description,
     attributes |-> default_attributes, stat_definitions |-> stat_definitions,
     characters |-> <<>>, enemies |-> <<>>,
     features_enabled |-> default_features_enabled]

\* Character(**character_data.dict()): the request's level is taken as it is.
Character(id, character_data) ==
    [id |-> id, name |-> character_data.name, level |-> character_data.level,
     base_attributes |-> character_data.base_attributes,
     calculated_stats |-> EmptyDict,
     character_class |-> character_data.character_class]

\* Enemy(**enemy_data.dict()): the request's level is taken as it is.
Enemy(id, enemy_data) ==
    [id |-> id, name |-> enemy_data.name, enemy_type |-> enemy_data.enemy_type,
     level |-> enemy_data.level, base_stats |-> enemy_data.base_stats,
     calculated_stats |-> EmptyDict]

\* clamp_level without the clamp.
clamp_level_unclamped(level) == level

\* What the bound counts.
Embedded(project_obj) ==
    Len(project_obj.characters) + Len(project_obj.enemies)
    + Len(project_obj.stat_definitions) - Len(default_stats)

\* The level an update stores: max(1, level) (server.py:206, 247).
clamp_level(level) == Max(1, level)

\* recalculate_characters leaving the cached stats as they are.
recalculate_characters_stale(project_obj) == project_obj

\* recalculate_characters rescaling the enemies as well.
recalculate_characters_and_enemies(project_obj) ==
    [project_obj EXCEPT
        !.characters =
            [i \in DOMAIN project_obj.characters |->
                [project_obj.characters[i] EXCEPT !.calculated_stats =
                    calculate_character_stats(project_obj.characters[i],
                                              project_obj.stat_definitions)]],
        !.enemies =
            [i \in DOMAIN project_obj.enemies |->
                [project_obj.enemies[i] EXCEPT !.calculated_stats =
                    enemy_calculated_stats(project_obj.enemies[i].base_stats,
                                           project_obj.enemies[i].level)]]]

\* "Recalculate all character stats" (server.py:276-277, 302-303).
recalculate_characters(project_obj) ==
    [project_obj EXCEPT !.characters =
        [i \in DOMAIN project_obj.characters |->
            [project_obj.characters[i] EXCEPT !.calculated_stats =
                calculate_character_stats(project_obj.characters[i],
                                          project_obj.stat_definitions)]]]

----------------------------------------------------------------------------
\* The handlers, each one whole request: load, change, write back, respond.

\* The model follows one project document: every handler reads and writes
\* only the document its project_id selects.
create_project(project_data) ==
    /\ db_projects = <<>>
    /\ LET project == Project(nextId, project_data, default_stats)
       IN  /\ db_projects' = Append(db_projects, project)
           /\ response' = Response("Project", project)
    /\ nextId' = nextId + 1

get_projects ==
    /\ response' = Response("List[Project]", db_projects)
    /\ UNCHANGED <<db_projects, nextId>>

get_project(project_id) ==
    /\ LET p == IndexOfId(db_projects, project_id)
       IN  response' = IF p = 0
                THEN HTTPException(404, "Project not found")
                ELSE Response("Project", db_projects[p])
    /\ UNCHANGED <<db_projects, nextId>>

\* The character create_character builds from the loaded project.
new_character(project_obj, id, character_data) ==
    [Character(id, character_data) EXCEPT !.calculated_stats =
        calculate_character_stats(Character(id, character_data),
                                  project_obj.stat_definitions)]

create_character(project_id, character_data) ==
    LET p == IndexOfId(db_projects, project_id)
    IN  IF p = 0
        THEN /\ response' = HTTPException(404, "Project not found")
             /\ UNCHANGED <<db_projects, nextId>>
        ELSE /\ Embedded(db_projects[p]) < MaxEmbedded
             /\ LET project_obj == db_projects[p]
                    character == new_character(project_obj, nextId, character_data)
                IN  /\ db_projects' = replace_one(db_projects, project_id,
                           [project_obj EXCEPT !.characters = Append(@, character)])
                    /\ response' = Response("Character", character)
             /\ nextId' = nextId + 1

\* The loop body of update_character_level on the character found.
character_at_level(character, level, stat_definitions) ==
    LET levelled == [character EXCEPT !.level = clamp_level(level)]
    IN  [levelled EXCEPT !.calculated_stats =
            calculate_character_stats(levelled, stat_definitions)]

update_character_level(project_id, character_id, level) ==
    LET p == IndexOfId(db_projects, project_id)
    IN  /\ IF p = 0
           THEN /\ response' = HTTPException(404, "Project not found")
                /\ UNCHANGED db_projects
           ELSE LET project_obj == db_projects[p]
                    c == IndexOfId(project_obj.characters, character_id)
                IN  IF c = 0
                    THEN /\ response' = HTTPException(404, "Character not found")
                         /\ UNCHANGED db_projects
                    ELSE /\ db_projects' = replace_one(db_projects, project_id,
                                [project_obj EXCEPT !.characters[c] =
                                    character_at_level(@, level,
                                                       project_obj.stat_definitions)])
                         /\ response' = Response("message",
                                [message |-> "Character level updated",
                                 level |-> level])
        /\ UNCHANGED nextId

\* new_enemy applying the level multiplier at creation.
new_enemy_scaled(id, enemy_data) ==
    [Enemy(id, enemy_data) EXCEPT !.calculated_stats =
        enemy_calculated_stats(enemy_data.base_stats, enemy_data.level)]

\* The enemy create_enemy builds: calculated_stats = base_stats.copy().
new_enemy(id, enemy_data) ==
    [Enemy(id, enemy_data) EXCEPT !.calculated_stats = enemy_data.base_stats]

create_enemy(project_id, enemy_data) ==
    LET p == IndexOfId(db_projects, project_id)
    IN  IF p = 0
        THEN /\ response' = HTTPException(404, "Project not found")
             /\ UNCHANGED <<db_projects, nextId>>
        ELSE /\ Embedded(db_projects[p]) < MaxEmbedded
             /\ LET project_obj == db_projects[p]
                    enemy == new_enemy(nextId, enemy_data)
                IN  /\ db_projects' = replace_one(db_projects, project_id,
                           [project_obj EXCEPT !.enemies = Append(@, enemy)])
                    /\ response' = Response("Enemy", enemy)
             /\ nextId' = nextId + 1

\* enemy_at_level scaling by the requested level, not the stored one.
enemy_at_level_raw(enemy, level) ==
    [enemy EXCEPT !.level = clamp_level(level),
                  !.calculated_stats = enemy_calculated_stats(enemy.base_stats, level)]

\* The loop body of update_enemy_level on the enemy found.
enemy_at_level(enemy, level) ==
    LET levelled == [enemy EXCEPT !.level = clamp_level(level)]
    IN  [levelled EXCEPT !.calculated_stats =
            enemy_calculated_stats(levelled.base_stats, levelled.level)]

update_enemy_level(project_id, enemy_id, level) ==
    LET p == IndexOfId(db_projects, project_id)
    IN  /\ IF p = 0
           THEN /\ response' = HTTPException(404, "Project not found")
                /\ UNCHANGED db_projects
           ELSE LET project_obj == db_projects[p]
                    e == IndexOfId(project_obj.enemies, enemy_id)
                IN  IF e = 0
                    THEN /\ response' = HTTPException(404, "Enemy not found")
                         /\ UNCHANGED db_projects
                    ELSE /\ db_projects' = replace_one(db_projects, project_id,
                                [project_obj EXCEPT !.enemies[e] =
                                    enemy_at_level(@, level)])
                         /\ response' = Response("message",
                                [message |-> "Enemy level updated", level |-> level])
        /\ UNCHANGED nextId

\* project_obj.stat_definitions.append(stat_def), then the recalculation.
append_stat_definition(project_obj, stat_def) ==
    recalculate_characters(
        [project_obj EXCEPT !.stat_definitions = Append(@, stat_def)])

create_stat_definition(project_id, stat_data) ==
    LET p == IndexOfId(db_projects, project_id)
    IN  /\ IF p = 0
           THEN /\ response' = HTTPException(404, "Project not found")
                /\ UNCHANGED db_projects
           ELSE /\ Embedded(db_projects[p]) < MaxEmbedded
                /\ db_projects' = replace_one(db_projects, project_id,
                       append_stat_definition(db_projects[p], stat_data))
                /\ response' = Response("StatDefinition", stat_data)
        /\ UNCHANGED nextId

\* project_obj.stat_definitions[i] = StatDefinition(...) at the first
\* definition named stat_name, then the recalculation.
replace_stat_definition(project_obj, i, stat_def) ==
    recalculate_characters(
        [project_obj EXCEPT !.stat_definitions[i] = stat_def])

update_stat_definition(project_id, stat_name, stat_data) ==
    LET p == IndexOfId(db_projects, project_id)
    IN  /\ IF p = 0
           THEN /\ response' = HTTPException(404, "Project not found")
                /\ UNCHANGED db_projects
           ELSE LET project_obj == db_projects[p]
                    i == IndexOfName(project_obj.stat_definitions, stat_name)
                IN  IF i = 0
                    THEN /\ response' = HTTPException(404, "Stat definition not found")
                         /\ UNCHANGED db_projects
                    ELSE /\ db_projects' = replace_one(db_projects, project_id,
                                replace_stat_definition(project_obj, i, stat_data))
                         /\ response' = Response("message",
                                [message |-> "Stat definition updated successfully"])
        /\ UNCHANGED nextId

get_stat_definitions(project_id) ==
    /\ LET p == IndexOfId(db_projects, project_id)
       IN  response' = IF p = 0
                THEN HTTPException(404, "Project not found")
                ELSE Response("List[StatDefinition]",
                              db_projects[p].stat_definitions)
    /\ UNCHANGED <<db_projects, nextId>>

\* get_balance_comparison reporting the enemy's base_stats as its stats.
get_balance_comparison_base_stats(project_id, character_id, enemy_id) ==
    /\ LET p == IndexOfId(db_projects, project_id)
       IN  response' =
             IF p = 0
             THEN HTTPException(404, "Project not found")
             ELSE LET project_obj == db_projects[p]
                      c == IndexOfId(project_obj.characters, character_id)
                      e == IndexOfId(project_obj.enemies, enemy_id)
                  IN  IF c = 0 \/ e = 0
                      THEN HTTPException(404, "Character or enemy not found")
                      ELSE LET character == project_obj.characters[c]
                               enemy == project_obj.enemies[e]
                           IN  Response("comparison",
                                 [character |-> character, enemy |-> enemy,
                                  comparison |->
                                    [character_level |-> character.level,
                                     enemy_level |-> enemy.level,
                                     character_stats |-> character.calculated_stats,
                                     enemy_stats |-> enemy.base_stats]])
    /\ UNCHANGED <<db_projects, nextId>>

get_balance_comparison(project_id, character_id, enemy_id) ==
    /\ LET p == IndexOfId(db_projects, project_id)
       IN  response' =
             IF p = 0
             THEN HTTPException(404, "Project not found")
             ELSE LET project_obj == db_projects[p]
                      c == IndexOfId(project_obj.characters, character_id)
                      e == IndexOfId(project_obj.enemies, enemy_id)
                  IN  IF c = 0 \/ e = 0
                      THEN HTTPException(404, "Character or enemy not found")
                      ELSE LET character == project_obj.characters[c]
                               enemy == project_obj.enemies[e]
                           IN  Response("comparison",
                                 [character |-> character, enemy |-> enemy,
                                  comparison |->
                                    [character_level |-> character.level,
                                     enemy_level |-> enemy.level,
                                     character_stats |-> character.calculated_stats,
                                     enemy_stats |-> enemy.calculated_stats]])
    /\ UNCHANGED <<db_projects, nextId>>

----------------------------------------------------------------------------
\* The service handling requests one at a time.

\* Ids a request addresses: the ids in the store, and 0 for an id that names
\* nothing there (no uuid4() call returned it).
ProjectIdInputs == {0} \cup {db_projects[i].id : i \in DOMAIN db_projects}

CharacterIdInputs ==
    {0} \cup UNION {{db_projects[i].characters[j].id :
                        j \in DOMAIN db_projects[i].characters} :
                    i \in DOMAIN db_projects}

EnemyIdInputs ==
    {0} \cup UNION {{db_projects[i].enemies[j].id :
                        j \in DOMAIN db_projects[i].enemies} :
                    i \in DOMAIN db_projects}

\* The requests interleaved, in the order the service takes them up; one not
\* yet received.
Requests == 1..MaxRequests

NoResponse == [status |-> 0, kind |-> "none", body |-> ""]

Idle == [pc |-> "idle", handler |-> "none", args |-> <<>>, project_obj |-> <<>>,
         response |-> NoResponse]

Init ==
    /\ db_projects = <<>>
    /\ nextId = 1
    /\ response = NoResponse
    /\ requests = [r \in Requests |-> Idle]

\* A handler that finds nothing under the ids it is given answers before it
\* reads the rest of the request: one value then stands for all of them.
Relevant(addressed, inputs) ==
    IF addressed THEN inputs ELSE {CHOOSE x \in inputs : TRUE}

\* Handled one at a time, no request is ever suspended.
Next ==
    \/ \E project_data \in ProjectCreateInputs :
         create_project(project_data) /\ UNCHANGED requests
    \/ get_projects /\ UNCHANGED requests
    \/ \E project_id \in ProjectIdInputs :
         get_project(project_id) /\ UNCHANGED requests
    \/ \E project_id \in ProjectIdInputs :
         \E character_data \in Relevant(project_id # 0, CharacterCreateInputs) :
           create_character(project_id, character_data) /\ UNCHANGED requests
    \/ \E project_id \in ProjectIdInputs :
         \E character_id \in Relevant(project_id # 0, CharacterIdInputs) :
           \E level \in Relevant(project_id # 0 /\ character_id # 0, Levels) :
             update_character_level(project_id, character_id, level) /\ UNCHANGED requests
    \/ \E project_id \in ProjectIdInputs :
         \E enemy_data \in Relevant(project_id # 0, EnemyCreateInputs) :
           create_enemy(project_id, enemy_data) /\ UNCHANGED requests
    \/ \E project_id \in ProjectIdInputs :
         \E enemy_id \in Relevant(project_id # 0, EnemyIdInputs) :
           \E level \in Relevant(project_id # 0 /\ enemy_id # 0, Levels) :
             update_enemy_level(project_id, enemy_id, level) /\ UNCHANGED requests
    \/ \E project_id \in ProjectIdInputs :
         \E stat_data \in Relevant(project_id # 0, StatDefinitionInputs) :
           create_stat_definition(project_id, stat_data) /\ UNCHANGED requests
    \/ \E project_id \in ProjectIdInputs :
         \E stat_name \in Relevant(project_id # 0, StatNameInputs),
            stat_data \in Relevant(project_id # 0, StatDefinitionInputs) :
           update_stat_definition(project_id, stat_name, stat_data) /\ UNCHANGED requests
    \/ \E project_id \in ProjectIdInputs :
         get_stat_definitions(project_id) /\ UNCHANGED requests
    \/ \E project_id \in ProjectIdInputs :
         \E character_id \in Relevant(project_id # 0, CharacterIdInputs),
            enemy_id \in Relevant(project_id # 0, EnemyIdInputs) :
           get_balance_comparison(project_id, character_id, enemy_id) /\ UNCHANGED requests

Spec == Init /\ [][Next]_vars

----------------------------------------------------------------------------
\* The service interleaving requests.  A handler is a coroutine: it can be
\* suspended only at an await, and the mutating handlers await twice, at
\* find_one and at replace_one.  Between the two a handler works on the
\* Project it built from the document it loaded.

\* What a handler does with the loaded project_obj up to its replace_one:
\* whether it reaches replace_one (write), whether it drew a fresh id, the
\* document it writes and what it answers.
Outcome(write, fresh, document, resp) ==
    [write |-> write, fresh |-> fresh, document |-> document, response |-> resp]

handler_outcome(handler, args, project_obj, id) ==
    CASE handler = "create_character" ->
           LET character == new_character(project_obj, id, args.character_data)
           IN  Outcome(TRUE, TRUE,
                       [project_obj EXCEPT !.characters = Append(@, character)],
                       Response("Character", character))
      [] handler = "update_character_level" ->
           LET c == IndexOfId(project_obj.characters, args.character_id)
           IN  IF c = 0
               THEN Outcome(FALSE, FALSE, project_obj,
                            HTTPException(404, "Character not found"))
               ELSE Outcome(TRUE, FALSE,
                            [project_obj EXCEPT !.characters[c] =
                                character_at_level(@, args.level,
                                                   project_obj.stat_definitions)],
                            Response("message",
                                [message |-> "Character level updated",
                                 level |-> args.level]))
      [] handler = "create_enemy" ->
           LET enemy == new_enemy(id, args.enemy_data)
           IN  Outcome(TRUE, TRUE,
                       [project_obj EXCEPT !.enemies = Append(@, enemy)],
                       Response("Enemy", enemy))
      [] handler = "update_enemy_level" ->
           LET e == IndexOfId(project_obj.enemies, args.enemy_id)
           IN  IF e = 0
               THEN Outcome(FALSE, FALSE, project_obj,
                            HTTPException(404, "Enemy not found"))
               ELSE Outcome(TRUE, FALSE,
                            [project_obj EXCEPT !.enemies[e] =
                                enemy_at_level(@, args.level)],
                            Response("message",
                                [message |-> "Enemy level updated",
                                 level |-> args.level]))
      [] handler = "create_stat_definition" ->
           Outcome(TRUE, FALSE,
                   append_stat_definition(project_obj, args.stat_data),
                   Response("StatDefinition", args.stat_data))
      [] handler = "update_stat_definition" ->
           LET i == IndexOfName(project_obj.stat_definitions, args.stat_name)
           IN  IF i = 0
               THEN Outcome(FALSE, FALSE, project_obj,
                            HTTPException(404, "Stat definition not found"))
               ELSE Outcome(TRUE, FALSE,
                            replace_stat_definition(project_obj, i, args.stat_data),
                            Response("message",
                                [message |-> "Stat definition updated successfully"]))

\* The handlers that add a sub-document to the project.
Creating == {"create_character", "create_enemy", "create_stat_definition"}

\* A request that has answered: what is kept of it is its response.
Done(resp) == [Idle EXCEPT !.pc = "done", !.response = resp]

\* project = await db.projects.find_one({"id": project_id}): a request is
\* received, loads its project and is suspended, or answers 404 at once.
find_one(r, handler, args) ==
    /\ requests[r].pc = "idle"
    /\ \A q \in 1..(r - 1) : requests[q].pc # "idle"
    /\ LET p == IndexOfId(db_projects, args.project_id)
       IN  IF p = 0
           THEN requests' = [requests EXCEPT ![r] =
                    Done(HTTPException(404, "Project not found"))]
           ELSE /\ handler \in Creating => Embedded(db_projects[p]) < MaxEmbedded
                /\ requests' = [requests EXCEPT ![r] =
                       [pc |-> "loaded", handler |-> handler, args |-> args,
                        project_obj |-> db_projects[p], response |-> NoResponse]]
    /\ UNCHANGED <<db_projects, nextId, response>>

\* replace_one_stored writing the change into the document now stored.
replace_one_merged(r) ==
    /\ requests[r].pc = "loaded"
    /\ LET request == requests[r]
           p == IndexOfId(db_projects, request.args.project_id)
           outcome == handler_outcome(request.handler, request.args,
                                      db_projects[p], nextId)
       IN  /\ db_projects' =
                  IF outcome.write
                  THEN replace_one(db_projects, request.args.project_id,
                                   outcome.document)
                  ELSE db_projects
           /\ nextId' = IF outcome.fresh THEN nextId + 1 ELSE nextId
           /\ UNCHANGED response
           /\ requests' = [requests EXCEPT ![r] = Done(outcome.response)]

\* replace_one_stored with the character handlers writing back the
\* characters alone, into the document now stored.
replace_one_characters(r) ==
    /\ requests[r].pc = "loaded"
    /\ LET request == requests[r]
           p == IndexOfId(db_projects, request.args.project_id)
           outcome == handler_outcome(request.handler, request.args,
                                      request.project_obj, nextId)
       IN  /\ db_projects' =
                  IF outcome.write
                  THEN replace_one(db_projects, request.args.project_id,
                         IF request.handler \in
                                {"create_character", "update_character_level"}
                         THEN [db_projects[p] EXCEPT
                                  !.characters = outcome.document.characters]
                         ELSE outcome.document)
                  ELSE db_projects
           /\ nextId' = IF outcome.fresh THEN nextId + 1 ELSE nextId
           /\ UNCHANGED response
           /\ requests' = [requests EXCEPT ![r] = Done(outcome.response)]

\* The rest of a suspended handler: its change on the project it loaded,
\* await db.projects.replace_one({"id": project_id}, project_obj.dict()) and
\* the answer; or the 404 of a sub-document not found, with no write.
replace_one_stored(r) ==
    /\ requests[r].pc = "loaded"
    /\ LET request == requests[r]
           outcome == handler_outcome(request.handler, request.args,
                                      request.project_obj, nextId)
       IN  /\ db_projects' =
                  IF outcome.write
                  THEN replace_one(db_projects, request.args.project_id,
                                   outcome.document)
                  ELSE db_projects
           /\ nextId' = IF outcome.fresh THEN nextId + 1 ELSE nextId
           /\ UNCHANGED response
           /\ requests' = [requests EXCEPT ![r] = Done(outcome.response)]

\* The values the interleaved requests carry.  What interleaving changes is
\* which document a write replaces, so fewer values are drawn than above: a
\* level the update handlers clamp and one they keep, the default level at
\* creation, one stat definition, a stat name that is defined from the start
\* and one that is not.
InterleavedLevels == {0, 3}

InterleavedCharacterCreateInputs ==
    {character_data \in CharacterCreateInputs : character_data.level = 1}

InterleavedEnemyCreateInputs ==
    {enemy_data \in EnemyCreateInputs : enemy_data.level = 1}

InterleavedStatDefinitionInputs ==
    {stat_data \in StatDefinitionInputs : Len(stat_data.modifiers) = 1}

InterleavedStatNameInputs == {"power", "speed"}

InterleavedNext ==
    \/ \E project_data \in ProjectCreateInputs :
         create_project(project_data) /\ UNCHANGED requests
    \/ \E r \in Requests, project_id \in ProjectIdInputs :
         \E character_data \in
                Relevant(project_id # 0, InterleavedCharacterCreateInputs) :
           find_one(r, "create_character",
                    [project_id |-> project_id, character_data |-> character_data])
    \/ \E r \in Requests, project_id \in ProjectIdInputs :
         \E character_id \in Relevant(project_id # 0, CharacterIdInputs) :
           \E level \in Relevant(project_id # 0 /\ character_id # 0,
                                 InterleavedLevels) :
             find_one(r, "update_character_level",
                      [project_id |-> project_id, character_id |-> character_id,
                       level |-> level])
    \/ \E r \in Requests, project_id \in ProjectIdInputs :
         \E enemy_data \in Relevant(project_id # 0, InterleavedEnemyCreateInputs) :
           find_one(r, "create_enemy",
                    [project_id |-> project_id, enemy_data |-> enemy_data])
    \/ \E r \in Requests, project_id \in ProjectIdInputs :
         \E enemy_id \in Relevant(project_id # 0, EnemyIdInputs) :
           \E level \in Relevant(project_id # 0 /\ enemy_id # 0, InterleavedLevels) :
             find_one(r, "update_enemy_level",
                      [project_id |-> project_id, enemy_id |-> enemy_id,
                       level |-> level])
    \/ \E r \in Requests, project_id \in ProjectIdInputs :
         \E stat_data \in Relevant(project_id # 0, InterleavedStatDefinitionInputs) :
           find_one(r, "create_stat_definition",
                    [project_id |-> project_id, stat_data |-> stat_data])
    \/ \E r \in Requests, project_id \in ProjectIdInputs :
         \E stat_name \in Relevant(project_id # 0, InterleavedStatNameInputs),
            stat_data \in Relevant(project_id # 0, InterleavedStatDefinitionInputs) :
           find_one(r, "update_stat_definition",
                    [project_id |-> project_id, stat_name |-> stat_name,
                     stat_data |-> stat_data])
    \/ \E r \in Requests : replace_one_stored(r)

InterleavedSpec == Init /\ [][InterleavedNext]_vars

----------------------------------------------------------------------------
\* What the properties below speak of.

Projects == {db_projects[i] : i \in DOMAIN db_projects}

CharactersOf(project) == {project.characters[i] : i \in DOMAIN project.characters}

EnemiesOf(project) == {project.enemies[i] : i \in DOMAIN project.enemies}

StatDefinitionsOf(project) ==
    {project.stat_definitions[i] : i \in DOMAIN project.stat_definitions}

StatNamesOf(project) == {d.name : d \in StatDefinitionsOf(project)}

\* The messages of the three update handlers.
Said(resp, message) == resp.kind = "message" /\ resp.body.message = message

\* The stat formula as the specification writes it: base_value, plus the sum
\* over the modifiers, plus the level bonus, rounded to one decimal place.
RECURSIVE ModifierSum(_, _, _)
ModifierSum(modifiers, base_attributes, n) ==
    IF n = 0 THEN 0
    ELSE ModifierSum(modifiers, base_attributes, n - 1)
         + Mul(IF modifiers[n].attribute \in DOMAIN base_attributes
                  THEN base_attributes[modifiers[n].attribute] ELSE 0,
               modifiers[n].multiplier)
         + modifiers[n].base_bonus

StatFormula(level, base_attributes, d) ==
    Round1(d.base_value
           + ModifierSum(d.modifiers, base_attributes, Len(d.modifiers))
           + (level - 1) * d.per_level_bonus)

\* The enemy formula as the specification writes it.
EnemyFormula(value, level) == Round1(Mul(value, Scale + (level - 1) * (Scale \div 10)))

----------------------------------------------------------------------------
\* C1: with requests handled one at a time, every stored character's
\* calculated_stats is calculate_character_stats of its current level and
\* base_attributes and the project's current stat_definitions.
C1_CalculatedStatsCurrent ==
    \A project \in Projects : \A character \in CharactersOf(project) :
        character.calculated_stats =
            calculate_character_stats(
                [level |-> character.level,
                 base_attributes |-> character.base_attributes],
                project.stat_definitions)

\* A stat definition was replaced in a project holding a level 3 character
\* with a "speed" stat.
C1_Witness ==
    /\ Said(response, "Stat definition updated successfully")
    /\ \E project \in Projects : \E character \in CharactersOf(project) :
          /\ character.level = 3
          /\ "speed" \in DOMAIN character.calculated_stats

\* C2 (as claimed): for every character and every stat definition d of its
\* project, calculate_character_stats returns for d.name the stat formula of d.
C2_EveryDefinitionYieldsItsFormula ==
    \A project \in Projects : \A character \in CharactersOf(project) :
        \A d \in StatDefinitionsOf(project) :
            calculate_character_stats(character, project.stat_definitions)[d.name]
                = StatFormula(character.level, character.base_attributes, d)

\* C3: a successful update_enemy_level with requested level N leaves the
\* target enemy with calculated_stats over exactly the keys of its base_stats,
\* each round(base_stats[s] * (1 + (max(1, N) - 1) * 0.1), 1).
C3_UpdateEnemyLevelScales ==
    [][ Said(response', "Enemy level updated") =>
          \A project_id \in ProjectIdInputs, enemy_id \in EnemyIdInputs,
             level \in Levels :
              update_enemy_level(project_id, enemy_id, level) =>
                  LET project == db_projects'[IndexOfId(db_projects', project_id)]
                      enemy == project.enemies[IndexOfId(project.enemies, enemy_id)]
                  IN  /\ DOMAIN enemy.calculated_stats = DOMAIN enemy.base_stats
                      /\ \A s \in DOMAIN enemy.base_stats :
                             enemy.calculated_stats[s] =
                                 EnemyFormula(enemy.base_stats[s], Max(1, level)) ]_vars

\* An enemy was updated to level 3: its health 80.25 became 96.3.
C3_Witness ==
    /\ Said(response, "Enemy level updated")
    /\ response.body.level = 3
    /\ \E project \in Projects : \E enemy \in EnemiesOf(project) :
          /\ enemy.level = 3
          /\ enemy.calculated_stats["health"] = Num(96, 300)

\* C4 (as claimed): every stored enemy has, for every stat s of its
\* base_stats, calculated_stats[s] = round(base_stats[s] * (1 + (level - 1) * 0.1), 1)
\* at its stored level.
C4_EnemyStatsAlwaysScaled ==
    \A project \in Projects : \A enemy \in EnemiesOf(project) :
        \A s \in DOMAIN enemy.base_stats :
            enemy.calculated_stats[s] = EnemyFormula(enemy.base_stats[s], enemy.level)

\* C5: create_enemy stores and returns an enemy whose calculated_stats is its
\* base_stats, key for key and value for value, whatever the level supplied.
C5_CreateEnemyCopiesBaseStats ==
    response.kind = "Enemy" =>
        /\ response.body.calculated_stats = response.body.base_stats
        /\ \E project \in Projects :
              /\ project.enemies # <<>>
              /\ project.enemies[Len(project.enemies)] = response.body

\* An enemy was created at level 3.
C5_Witness ==
    /\ response.kind = "Enemy"
    /\ response.body.level = 3
    /\ response.body.calculated_stats["health"] = Num(80, 250)

\* C6: a successful update_character_level or update_enemy_level with
\* requested level N stores max(1, N) as the level of the entity addressed.
C6_UpdateStoresClampedLevel ==
    [][ /\ Said(response', "Character level updated") =>
            \A project_id \in ProjectIdInputs, character_id \in CharacterIdInputs,
               level \in Levels :
                update_character_level(project_id, character_id, level) =>
                    LET project == db_projects'[IndexOfId(db_projects', project_id)]
                    IN  project.characters[
                            IndexOfId(project.characters, character_id)].level
                        = (IF level >= 1 THEN level ELSE 1)
        /\ Said(response', "Enemy level updated") =>
            \A project_id \in ProjectIdInputs, enemy_id \in EnemyIdInputs,
               level \in Levels :
                update_enemy_level(project_id, enemy_id, level) =>
                    LET project == db_projects'[IndexOfId(db_projects', project_id)]
                    IN  project.enemies[IndexOfId(project.enemies, enemy_id)].level
                        = (IF level >= 1 THEN level ELSE 1) ]_vars

\* A character was updated with a requested level below 1 and is at level 1.
C6_Witness ==
    /\ Said(response, "Character level updated")
    /\ response.body.level <= 0
    /\ \E project \in Projects :
          /\ Len(project.characters) = 1
          /\ project.characters[1].level = 1
          /\ project.characters[1].calculated_stats["health"] = Num(171, 200)

\* C7 (as claimed): every stored character and every stored enemy has
\* level >= 1.
C7_LevelsAtLeastOne ==
    \A project \in Projects :
        /\ \A character \in CharactersOf(project) : character.level >= 1
        /\ \A enemy \in EnemiesOf(project) : enemy.level >= 1

\* C8: a successful create_stat_definition or update_stat_definition changes
\* nothing in the project but stat_definitions and the characters'
\* calculated_stats: the characters' other fields, their number and order, the
\* enemies and every other field of the project stay as they were.
C8_StatEditFrame ==
    [][ (response'.kind = "StatDefinition"
            \/ Said(response', "Stat definition updated successfully")) =>
          /\ nextId' = nextId
          /\ Len(db_projects') = Len(db_projects)
          /\ \A p \in DOMAIN db_projects :
                LET old == db_projects[p]
                    new == db_projects'[p]
                IN  /\ [new EXCEPT !.stat_definitions = old.stat_definitions,
                                   !.characters = old.characters] = old
                    /\ Len(new.characters) = Len(old.characters)
                    /\ \A c \in DOMAIN old.characters :
                          [new.characters[c] EXCEPT !.calculated_stats =
                              old.characters[c].calculated_stats]
                          = old.characters[c] ]_vars

\* A stat definition was replaced in a project with a character and an enemy
\* whose calculated_stats differ from the scaling of its level.
C8_Witness ==
    /\ Said(response, "Stat definition updated successfully")
    /\ \E project \in Projects :
          /\ project.characters # <<>>
          /\ \E enemy \in EnemiesOf(project) :
                enemy.level = 3 /\ enemy.calculated_stats = enemy.base_stats

\* C9: the keys of every character's calculated_stats are the names of the
\* stat definitions of its project, no more and no fewer.
C9_KeysAreDefinitionNames ==
    \A project \in Projects : \A character \in CharactersOf(project) :
        DOMAIN character.calculated_stats = StatNamesOf(project)

\* update_stat_definition replaced the definition "power" by one named
\* "speed" in a project with a character.
C9_Witness ==
    /\ Said(response, "Stat definition updated successfully")
    /\ \E project \in Projects :
          /\ "power" \notin StatNamesOf(project)
          /\ "speed" \in StatNamesOf(project)
          /\ project.characters # <<>>

\* C10 (as claimed): after a successful update_stat_definition for path name
\* N with a body D named N, the project's definition named N is D and every
\* character's calculated_stats[N] is the stat formula of D.
C10_UpdatedDefinitionDecides ==
    [][ Said(response', "Stat definition updated successfully") =>
          \A project_id \in ProjectIdInputs, stat_name \in StatNameInputs,
             stat_data \in StatDefinitionInputs :
              (update_stat_definition(project_id, stat_name, stat_data)
                  /\ stat_data.name = stat_name) =>
                  LET project == db_projects'[IndexOfId(db_projects', project_id)]
                  IN  /\ \A d \in StatDefinitionsOf(project) :
                             d.name = stat_name => d = stat_data
                      /\ \A character \in CharactersOf(project) :
                             character.calculated_stats[stat_name] =
                                 StatFormula(character.level,
                                             character.base_attributes, stat_data) ]_vars

\* C11: create_project stores and returns a project with exactly the four
\* default stat definitions, in the order health, mana, power, initiative with
\* the values listed, and with no characters and no enemies.
C11_CreateProjectDefaults ==
    [][ \A project_data \in ProjectCreateInputs :
          create_project(project_data) =>
              LET project == response'.body
              IN  /\ response'.kind = "Project"
                  /\ db_projects' # <<>>
                  /\ db_projects'[Len(db_projects')] = project
                  /\ Len(project.stat_definitions) = 4
                  /\ project.stat_definitions[1] =
                         [name |-> "health", base_value |-> 100 * Scale,
                          modifiers |-> <<[attribute |-> "constitution",
                                           multiplier |-> 5 * Scale, base_bonus |-> 0]>>,
                          per_level_bonus |-> 10 * Scale]
                  /\ project.stat_definitions[2] =
                         [name |-> "mana", base_value |-> 50 * Scale,
                          modifiers |-> <<[attribute |-> "intelligence",
                                           multiplier |-> 3 * Scale, base_bonus |-> 0]>>,
                          per_level_bonus |-> 5 * Scale]
                  /\ project.stat_definitions[3] =
                         [name |-> "power", base_value |-> 20 * Scale,
                          modifiers |-> <<[attribute |-> "strength",
                                           multiplier |-> 2 * Scale, base_bonus |-> 0]>>,
                          per_level_bonus |-> 2 * Scale]
                  /\ project.stat_definitions[4] =
                         [name |-> "initiative", base_value |-> 10 * Scale,
                          modifiers |-> <<[attribute |-> "dexterity",
                                           multiplier |-> (3 * Scale) \div 2,
                                           base_bonus |-> 0]>>,
                          per_level_bonus |-> Scale]
                  /\ project.characters = <<>>
                  /\ project.enemies = <<>> ]_vars

\* create_project has just answered: the store holds the project returned
\* and nothing else was created.
C11_Witness ==
    /\ response.kind = "Project"
    /\ response.body.name = "demo"
    /\ nextId = 2
    /\ db_projects = <<response.body>>
    /\ Len(response.body.stat_definitions) = 4

\* Whether the store holds what a request addresses.
HasProject(project_id) == \E project \in Projects : project.id = project_id

HasCharacter(project_id, character_id) ==
    \E project \in Projects :
        /\ project.id = project_id
        /\ \E character \in CharactersOf(project) : character.id = character_id

HasEnemy(project_id, enemy_id) ==
    \E project \in Projects :
        /\ project.id = project_id
        /\ \E enemy \in EnemiesOf(project) : enemy.id = enemy_id

HasStat(project_id, stat_name) ==
    \E project \in Projects :
        /\ project.id = project_id
        /\ stat_name \in StatNamesOf(project)

\* C12: a request that addresses a project, character, enemy or stat
\* definition the store does not hold ends in a 404 (no handler answers it
\* with anything else), and every step ending in a 404 leaves the store as it was.
C12_NotFoundLeavesStore ==
    [][ /\ response'.status = 404 => UNCHANGED <<db_projects, nextId>>
        /\ response'.status # 404 =>
            \A project_id \in ProjectIdInputs :
              /\ response'.kind = "Project" =>
                    (~HasProject(project_id) => ~get_project(project_id))
              /\ response'.kind = "List[StatDefinition]" =>
                    (~HasProject(project_id) => ~get_stat_definitions(project_id))
              /\ response'.kind = "Character" =>
                    \A character_data \in CharacterCreateInputs :
                        ~HasProject(project_id) =>
                            ~create_character(project_id, character_data)
              /\ response'.kind = "Enemy" =>
                    \A enemy_data \in EnemyCreateInputs :
                        ~HasProject(project_id) => ~create_enemy(project_id, enemy_data)
              /\ response'.kind = "StatDefinition" =>
                    \A stat_data \in StatDefinitionInputs :
                        ~HasProject(project_id) =>
                            ~create_stat_definition(project_id, stat_data)
              /\ Said(response', "Stat definition updated successfully") =>
                    \A stat_name \in StatNameInputs, stat_data \in StatDefinitionInputs :
                        ~HasStat(project_id, stat_name) =>
                            ~update_stat_definition(project_id, stat_name, stat_data)
              /\ Said(response', "Character level updated") =>
                    \A character_id \in CharacterIdInputs, level \in Levels :
                        ~HasCharacter(project_id, character_id) =>
                            ~update_character_level(project_id, character_id, level)
              /\ Said(response', "Enemy level updated") =>
                    \A enemy_id \in EnemyIdInputs, level \in Levels :
                        ~HasEnemy(project_id, enemy_id) =>
                            ~update_enemy_level(project_id, enemy_id, level)
              /\ response'.kind = "comparison" =>
                    \A character_id \in CharacterIdInputs, enemy_id \in EnemyIdInputs :
                        (~HasCharacter(project_id, character_id)
                            \/ ~HasEnemy(project_id, enemy_id)) =>
                            ~get_balance_comparison(project_id, character_id, enemy_id)
      ]_vars

\* update_character_level was asked for a character the project, holding
\* another one, does not have.
C12_Witness ==
    /\ response.status = 404
    /\ response.body = "Character not found"
    /\ \E project \in Projects : project.characters # <<>>

\* C14 (as claimed): a successful update_enemy_level with requested level
\* at most 1 leaves the enemy's calculated_stats equal to its base_stats,
\* whatever the base stat values.
C14_LevelOneEqualsBaseStats ==
    [][ Said(response', "Enemy level updated") =>
          \A project_id \in ProjectIdInputs, enemy_id \in EnemyIdInputs,
             level \in Levels :
              (level <= 1 /\ update_enemy_level(project_id, enemy_id, level)) =>
                  LET project == db_projects'[IndexOfId(db_projects', project_id)]
                      enemy == project.enemies[IndexOfId(project.enemies, enemy_id)]
                  IN  /\ enemy.level = 1
                      /\ enemy.calculated_stats = enemy.base_stats ]_vars

\* C15: get_balance_comparison for a stored project, character and enemy
\* returns the two as stored, with comparison fields equal to their stored
\* level and calculated_stats, and leaves the store unchanged; if the
\* character or the enemy is absent from the project it answers not-found.
C15_BalanceComparison ==
    [][ (response'.kind = "comparison"
            \/ (response'.status = 404
                    /\ response'.body = "Character or enemy not found")) =>
          \A project_id \in ProjectIdInputs, character_id \in CharacterIdInputs,
             enemy_id \in EnemyIdInputs :
              get_balance_comparison(project_id, character_id, enemy_id) =>
                  /\ UNCHANGED <<db_projects, nextId>>
                  /\ HasProject(project_id)
                  /\ IF HasCharacter(project_id, character_id)
                          /\ HasEnemy(project_id, enemy_id)
                     THEN LET project == CHOOSE pr \in Projects : pr.id = project_id
                              character == CHOOSE c \in CharactersOf(project) :
                                               c.id = character_id
                              enemy == CHOOSE e \in EnemiesOf(project) : e.id = enemy_id
                          IN  /\ response'.status = 200
                              /\ response'.kind = "comparison"
                              /\ response'.body.character = character
                              /\ response'.body.enemy = enemy
                              /\ response'.body.comparison =
                                     [character_level |-> character.level,
                                      enemy_level |-> enemy.level,
                                      character_stats |-> character.calculated_stats,
                                      enemy_stats |-> enemy.calculated_stats]
                     ELSE response'.status = 404 ]_vars

\* A comparison was returned of a character with an enemy that had been
\* updated to level 3 (its calculated_stats differ from its base_stats).
C15_Witness ==
    /\ response.kind = "comparison"
    /\ response.body.comparison.enemy_level = 3
    /\ response.body.comparison.enemy_stats["health"] = Num(96, 300)
    /\ response.body.comparison.character_stats["health"] = Num(171, 200)

\* C16 (as claimed): the stat definitions of every stored project have
\* pairwise distinct names.
C16_StatNamesDistinct ==
    \A project \in Projects :
        \A i, j \in DOMAIN project.stat_definitions :
            project.stat_definitions[i].name = project.stat_definitions[j].name
                => i = j

\* C18 (as claimed): the level in the response of a successful
\* update_character_level or update_enemy_level is the level stored for the
\* entity addressed.
C18_ResponseLevelIsStoredLevel ==
    [][ /\ Said(response', "Character level updated") =>
            \A project_id \in ProjectIdInputs, character_id \in CharacterIdInputs,
               level \in Levels :
                update_character_level(project_id, character_id, level) =>
                    LET project == db_projects'[IndexOfId(db_projects', project_id)]
                    IN  project.characters[
                            IndexOfId(project.characters, character_id)].level
                        = response'.body.level
        /\ Said(response', "Enemy level updated") =>
            \A project_id \in ProjectIdInputs, enemy_id \in EnemyIdInputs,
               level \in Levels :
                update_enemy_level(project_id, enemy_id, level) =>
                    LET project == db_projects'[IndexOfId(db_projects', project_id)]
                    IN  project.enemies[IndexOfId(project.enemies, enemy_id)].level
                        = response'.body.level ]_vars

\* Ids of the sub-documents of a list.
IdsOf(list) == {list[i].id : i \in DOMAIN list}

\* C13: a request that loaded a project and, suspended, writes it back with
\* success stores its own snapshot with its own change: the stored project
\* then holds no character, enemy or stat definition beyond those of the
\* snapshot and the one the request adds, so whatever another request stored
\* in between is gone although that request answered with success too.
C13_WriteBackStoresSnapshot ==
    [][ \A r \in Requests :
          (/\ requests[r].pc = "loaded"
           /\ requests'[r].pc = "done"
           /\ requests'[r].response.status = 200) =>
              LET old == requests[r].project_obj
                  new == db_projects'[IndexOfId(db_projects', old.id)]
              IN  /\ IdsOf(new.characters) \subseteq IdsOf(old.characters) \cup {nextId}
                  /\ IdsOf(new.enemies) \subseteq IdsOf(old.enemies) \cup {nextId}
                  /\ Len(new.characters) + Len(new.enemies)
                        <= Len(old.characters) + Len(old.enemies) + 1
                  /\ Len(new.stat_definitions) <= Len(old.stat_definitions) + 1
                  /\ [new EXCEPT !.characters = <<>>, !.enemies = <<>>,
                                 !.stat_definitions = <<>>]
                     = [old EXCEPT !.characters = <<>>, !.enemies = <<>>,
                                   !.stat_definitions = <<>>] ]_vars

\* Two create_character requests, the only ones sent, both answered with the
\* character they created, and the project holds one character only.
C13_Witness ==
    /\ requests[1].pc = "done" /\ requests[1].response.kind = "Character"
    /\ requests[2].pc = "done" /\ requests[2].response.kind = "Character"
    /\ requests[1].response.status = 200 /\ requests[2].response.status = 200
    /\ requests[1].response.body.id # requests[2].response.body.id
    /\ \A r \in Requests : r > 2 => requests[r].pc = "idle"
    /\ \E project \in Projects :
          /\ Len(project.characters) = 1
          /\ project.enemies = <<>>

\* C17: under every interleaving, every stored project document is
\* consistent in itself: each character's calculated_stats is
\* calculate_character_stats of that character and of the stat_definitions
\* of the same document.
C17_StoredDocumentConsistent ==
    \A i \in DOMAIN db_projects :
        \A c \in DOMAIN db_projects[i].characters :
            db_projects[i].characters[c].calculated_stats =
                calculate_character_stats(db_projects[i].characters[c],
                                          db_projects[i].stat_definitions)

\* A stat definition update and a character level update both answered with
\* success on a project whose character is at level 3 and whose definitions
\* show no trace of the stat update: the level update, suspended since
\* before it, wrote its snapshot over it.
C17_Witness ==
    /\ \E r \in Requests :
          /\ requests[r].pc = "done"
          /\ Said(requests[r].response, "Stat definition updated successfully")
    /\ \E r \in Requests :
          /\ requests[r].pc = "done"
          /\ Said(requests[r].response, "Character level updated")
          /\ requests[r].response.body.level = 3
    /\ \E project \in Projects :
          /\ "speed" \notin StatNamesOf(project)
          /\ \E character \in CharactersOf(project) : character.level = 3

====
